---- MODULE Spec2Model ----
(***************************************************************************)
(* Marshalling between host (Lua) tables and JSON / YAML / TOML / XML as   *)
(* done by VM/src/ljsonlib.cpp, lyamllib.cpp, lxmllib.cpp and the TOML     *)
(* library.                                                                *)
(*                                                                         *)
(* Host values are tagged tuples whose first component is the Lua type:    *)
(*   <<"nil">>  <<"boolean", b>>  <<"number", kind, n>>  <<"string", s>>   *)
(*   <<"table", id>>  <<"function", id>>                                   *)
(* A finite number is held in tenths (n = 15 is 1.5); kind is "fin", "inf" *)
(* or "nan".  A string is a sequence of characters, NUL being the zero     *)
(* byte, which a Lua string may hold anywhere.  A table is an identity     *)
(* into heap; heap[id].ent is the table's entries <<key, value>> in the    *)
(* order lua_next walks them, heap[id].border the border lua_objlen        *)
(* reports (both are fixed by the table's internal layout).                *)
(***************************************************************************)
EXTENDS Integers, Sequences, FiniteSets, TLC

VARIABLES heap, root, pc, fmt, out, inp, val, guard, found

vars == <<heap, root, pc, fmt, out, inp, val, guard, found>>

(* ------------------------------ bounds -------------------------------- *)

\* largest number of entries of the table handed to the classifiers
MaxKeys == 3

\* deepest nesting of an empty table below the root
MaxDepth == 2

\* the number of tables of a heap of the sharing family
MaxTables == 2

\* the number of entries of the root table of the round-trip family
MaxElems == 2

(* --------------------------- host values ------------------------------ *)

NUL == "NUL"

Nil == <<"nil">>
Bool(b) == <<"boolean", b>>
Num(n) == <<"number", "fin", n * 10>>
Tenths(t) == <<"number", "fin", t>>
NumInf == <<"number", "inf", 0>>
NumNan == <<"number", "nan", 0>>
Str(s) == <<"string", s>>
Ref(t) == <<"table", t>>
Fn == <<"function", 0>>

lua_type(v) == v[1]

DigitChars == <<"0", "1", "2", "3", "4", "5", "6", "7", "8", "9">>

IsDigit(c) == \E i \in 1..10 : DigitChars[i] = c

DigitVal(c) == (CHOOSE i \in 1..10 : DigitChars[i] = c) - 1

RECURSIVE NatToChars(_)
NatToChars(n) ==
    IF n < 10 THEN <<DigitChars[n + 1]>>
    ELSE NatToChars(n \div 10) \o <<DigitChars[(n % 10) + 1]>>

\* decimal text of a number held in tenths (shortest form: 1, 1.5, -2)
TenthsToChars(t) ==
    LET a == IF t < 0 THEN -t ELSE t
        body == NatToChars(a \div 10) \o
                (IF a % 10 = 0 THEN <<>> ELSE <<".", DigitChars[(a % 10) + 1]>>)
    IN  IF t < 0 THEN <<"-">> \o body ELSE body

\* a C string read from a Lua string's bytes: it ends at the first zero byte
RECURSIVE CStr(_)
CStr(s) ==
    IF s = <<>> \/ Head(s) = NUL THEN <<>>
    ELSE <<Head(s)>> \o CStr(Tail(s))

(* ------------------------------ strtod -------------------------------- *)

RECURSIVE SkipDigits(_, _)
SkipDigits(s, i) == IF i <= Len(s) /\ IsDigit(s[i]) THEN SkipDigits(s, i + 1) ELSE i

RECURSIVE SkipSpaces(_, _)
SkipSpaces(s, i) == IF i <= Len(s) /\ s[i] = " " THEN SkipSpaces(s, i + 1) ELSE i

RECURSIVE DigitsVal(_, _, _)
DigitsVal(s, i, j) == IF j <= i THEN 0 ELSE DigitsVal(s, i, j - 1) * 10 + DigitVal(s[j - 1])

RECURSIVE Pow10(_)
Pow10(e) == IF e <= 0 THEN 1 ELSE 10 * Pow10(e - 1)

StartsAt(s, i, w) == i + Len(w) - 1 <= Len(s) /\ SubSeq(s, i, i + Len(w) - 1) = w

\* strtod on the C string s: [conv |-> whether a number was read, end |-> index of
\* the first character not consumed, kind, n |-> the value in tenths].  Decimal
\* numerals, "inf" and "nan" are read; digits after the first fractional digit
\* and what a negative exponent shifts below tenths lie off the number grid.
\* i0: after blanks and sign; i1: after the integer digits; i2: after the
\* fraction; j1: after the exponent's sign; j2: after the exponent's digits.
StrtodValue(s, neg, mant, expNeg, e) ==
    IF neg THEN -(IF expNeg THEN mant \div Pow10(e) ELSE mant * Pow10(e))
    ELSE (IF expNeg THEN mant \div Pow10(e) ELSE mant * Pow10(e))

StrtodWord(s, i0) ==
    IF StartsAt(s, i0, <<"i", "n", "f">>)
    THEN [conv |-> TRUE, end |-> i0 + 3, kind |-> "inf", n |-> 0]
    ELSE IF StartsAt(s, i0, <<"n", "a", "n">>)
    THEN [conv |-> TRUE, end |-> i0 + 3, kind |-> "nan", n |-> 0]
    ELSE [conv |-> FALSE, end |-> 1, kind |-> "fin", n |-> 0]

StrtodExp(s, neg, i0, mant, i2, j1, j2) ==
    IF i2 <= Len(s) /\ s[i2] \in {"e", "E"} /\ j2 > j1
    THEN [conv |-> TRUE, end |-> j2, kind |-> "fin",
          n |-> StrtodValue(s, neg, mant, s[i2 + 1] = "-", DigitsVal(s, j1, j2))]
    ELSE [conv |-> TRUE, end |-> i2, kind |-> "fin", n |-> StrtodValue(s, neg, mant, FALSE, 0)]

StrtodExpSign(s, neg, i0, mant, i2, j1) ==
    StrtodExp(s, neg, i0, mant, i2, j1, SkipDigits(s, j1))

StrtodFrac(s, neg, i0, i1, i2) ==
    IF i1 > i0 \/ i2 > i1 + 1
    THEN StrtodExpSign(s, neg, i0,
                       DigitsVal(s, i0, i1) * 10 + (IF i2 > i1 + 1 THEN DigitVal(s[i1 + 1]) ELSE 0),
                       i2,
                       IF i2 + 1 <= Len(s) /\ s[i2 + 1] \in {"+", "-"} THEN i2 + 2 ELSE i2 + 1)
    ELSE StrtodWord(s, i0)

StrtodInt(s, neg, i0, i1) ==
    StrtodFrac(s, neg, i0, i1, IF i1 <= Len(s) /\ s[i1] = "." THEN SkipDigits(s, i1 + 1) ELSE i1)

StrtodSign(s, w) ==
    IF w <= Len(s) /\ s[w] \in {"+", "-"}
    THEN StrtodInt(s, s[w] = "-", w + 1, SkipDigits(s, w + 1))
    ELSE StrtodInt(s, FALSE, w, SkipDigits(s, w))

strtod(s) == StrtodSign(s, SkipSpaces(s, 1))

\* luaO_str2d behind lua_tointeger / lua_tonumber of a string: the whole C string
\* but trailing blanks must be a numeral
Str2dEnd(c, r) == [r EXCEPT !.conv = r.conv /\ SkipSpaces(c, r.end) > Len(c)]

Str2dC(c) == Str2dEnd(c, strtod(c))

str2d(s) == Str2dC(CStr(s))

(* ----------------------------- Lua C API ------------------------------ *)

\* lua_isstring: true for strings and for numbers
lua_isstring(v) == lua_type(v) \in {"string", "number"}

\* lua_tostring / lua_tolstring: a number is replaced IN PLACE by its text
lua_tostring(v) ==
    IF lua_type(v) = "string" THEN v
    ELSE IF v[2] = "fin" THEN Str(TenthsToChars(v[3]))
    ELSE Str(<<"i", "n", "f">>)

\* C truncation of a double toward zero
Trunc(t) == IF t < 0 THEN -((-t) \div 10) ELSE t \div 10

\* lua_tointeger: a number is truncated, a string that reads as a number is
\* converted first, anything else gives 0
ToIntegerOf(r) == IF r.conv /\ r.kind = "fin" THEN Trunc(r.n) ELSE 0

lua_tointeger(v) ==
    IF lua_type(v) = "number" THEN (IF v[2] = "fin" THEN Trunc(v[3]) ELSE 0)
    ELSE IF lua_type(v) = "string" THEN ToIntegerOf(str2d(v[2]))
    ELSE 0

IsIntegral(v) == lua_type(v) = "number" /\ v[2] = "fin" /\ v[3] % 10 = 0

HasKey(T, k) == \E j \in 1..Len(T.ent) : T.ent[j][1] = k

KeyPos(T, k) == CHOOSE j \in 1..Len(T.ent) : T.ent[j][1] = k

\* lua_rawgeti
lua_rawgeti(T, i) == IF HasKey(T, Num(i)) THEN T.ent[KeyPos(T, Num(i))][2] ELSE Nil

\* lua_objlen of a table
lua_objlen(T) == T.border

\* lua_next: position of the entry after `key` (0: traversal over, -1: the key
\* on the stack is not a key of the table, "invalid key to 'next'")
lua_next(T, key) ==
    IF key = Nil THEN (IF Len(T.ent) = 0 THEN 0 ELSE 1)
    ELSE IF ~HasKey(T, key) THEN -1
    ELSE IF KeyPos(T, key) = Len(T.ent) THEN 0
    ELSE KeyPos(T, key) + 1

Err(msg) == <<"err", msg>>

\* luaL_error raised inside a serialize call: seen is the identity set at that
\* moment
Raise(msg, seen) == <<"err", msg, seen>>

\* a set that would start from what the call before it left recorded
unordered_set_left == guard

\* std::unordered_set<const void*> seen; at the head of a serialize call: the set
\* is a local of the call and starts empty, whatever the call before it left
unordered_set == {}
Hang == <<"hang">>

InvalidNext == "invalid key to 'next'"

(* ------------------------------- JSON --------------------------------- *)

\* is_array of ljsonlib.cpp; len is lua_objlen
json_is_array(T) ==
    LET len == lua_objlen(T) IN
    IF len = 0 /\ lua_next(T, Nil) = 0 THEN FALSE
    ELSE IF \E i \in 1..len : lua_rawgeti(T, i) = Nil THEN FALSE
    ELSE \A j \in 1..Len(T.ent) :
            LET key == T.ent[j][1] IN
            /\ lua_type(key) = "number"
            /\ ~(lua_tointeger(key) < 1 \/ lua_tointeger(key) > len)

JNull == <<"jnull">>

\* obj[k] = v on a json object (a std::map: one value per key)
ObjSet(obj, k, v) == [x \in (DOMAIN obj) \cup {k} |-> IF x = k THEN v ELSE obj[x]]

RECURSIVE json_encode_value(_, _, _)
RECURSIVE json_encode_table(_, _, _)
RECURSIVE json_array_loop(_, _, _, _, _)
RECURSIVE JsonArrayNext(_, _, _, _, _)
RECURSIVE json_object_loop(_, _, _, _, _, _)
RECURSIVE JsonObjectAt(_, _, _, _, _, _)
RECURSIVE JsonObjectNext(_, _, _, _, _, _, _)

\* for (i = 1; i <= len; ++i) arr.push_back(encode_value(rawgeti(i))); then
\* seen.erase(ptr)
json_array_loop(h, t, i, arr, seen) ==
    IF i > lua_objlen(h[t]) THEN <<"ok", <<"jarr", arr>>, seen \ {t}>>
    ELSE JsonArrayNext(h, t, i, arr, json_encode_value(h, lua_rawgeti(h[t], i), seen))

\* r is what encode_value gave for element i: an error ends the call
JsonArrayNext(h, t, i, arr, r) ==
    IF r[1] # "ok" THEN r
    ELSE json_array_loop(h, t, i + 1, Append(arr, r[2]), r[3])

\* while (lua_next(L, index)) { ... }: key is the key the previous round left on
\* the stack, visited the positions whose body already ran (a position met twice
\* repeats for ever); then seen.erase(ptr)
json_object_loop(h, t, key, obj, seen, visited) ==
    JsonObjectAt(h, t, obj, seen, visited, lua_next(h[t], key))

JsonObjectAt(h, t, obj, seen, visited, p) ==
    IF p = -1 THEN Raise(InvalidNext, seen)
    ELSE IF p = 0 THEN <<"ok", <<"jobj", obj>>, seen \ {t}>>
    ELSE IF p \in visited THEN Hang
    ELSE IF ~lua_isstring(h[t].ent[p][1]) THEN Raise("json object keys must be strings", seen)
    ELSE JsonObjectNext(h, t, obj, visited, p, lua_tostring(h[t].ent[p][1]),
                        json_encode_value(h, h[t].ent[p][2], seen))

\* obj[lua_tostring(L, -2)] = r; the key on the stack is now the string ks
JsonObjectNext(h, t, obj, visited, p, ks, r) ==
    IF r[1] # "ok" THEN r
    ELSE json_object_loop(h, t, ks, ObjSet(obj, CStr(ks[2]), r[2]), r[3], visited \cup {p})

json_encode_table(h, t, seen) ==
    IF t \in seen THEN Raise("cannot serialize cyclic table", seen)
    ELSE IF json_is_array(h[t]) THEN json_array_loop(h, t, 1, <<>>, seen \cup {t})
    ELSE json_object_loop(h, t, Nil, <<>>, seen \cup {t}, {})

json_encode_value(h, v, seen) ==
    CASE lua_type(v) = "nil" -> <<"ok", JNull, seen>>
      [] lua_type(v) = "boolean" -> <<"ok", <<"jbool", v[2]>>, seen>>
      [] lua_type(v) = "number" -> <<"ok", <<"jnum", v[2], v[3]>>, seen>>
      [] lua_type(v) = "string" -> <<"ok", <<"jstr", CStr(v[2])>>, seen>>
      [] lua_type(v) = "table" -> json_encode_table(h, v[2], seen)
      [] OTHER -> Raise("unsupported lua type for json serialization", seen)

\* jsonserialize: a fresh `seen`, then the document
jsonserialize(h, t) == json_encode_value(h, Ref(t), unordered_set)

(* ------------------------------- YAML --------------------------------- *)

\* is_array of lyamllib.cpp
yaml_is_array(T) ==
    IF lua_next(T, Nil) = 0 THEN TRUE
    ELSE IF \E i \in 1..lua_objlen(T) : lua_rawgeti(T, i) = Nil THEN FALSE
    ELSE \A j \in 1..Len(T.ent) :
            /\ lua_type(T.ent[j][1]) = "number"
            /\ IsIntegral(T.ent[j][1])
            /\ ~(lua_tointeger(T.ent[j][1]) < 1 \/ lua_tointeger(T.ent[j][1]) > lua_objlen(T))

\* YAML::Node(bool) and YAML::Node(double): a scalar node holds only its text
YamlBool(b) == IF b THEN <<"t", "r", "u", "e">> ELSE <<"f", "a", "l", "s", "e">>

YamlDouble(v) ==
    IF v[2] = "fin" THEN TenthsToChars(v[3])
    ELSE IF v[2] = "inf" THEN <<".", "i", "n", "f">>
    ELSE <<".", "n", "a", "n">>

YNull == <<"ynull">>
YScalar(s) == <<"yscalar", s>>

RECURSIVE yaml_encode_lua_value(_, _, _)
RECURSIVE yaml_encode_lua_table(_, _, _)
RECURSIVE yaml_seq_loop(_, _, _, _, _)
RECURSIVE YamlSeqNext(_, _, _, _, _)
RECURSIVE yaml_map_loop(_, _, _, _, _, _)
RECURSIVE YamlMapAt(_, _, _, _, _, _)
RECURSIVE YamlMapNext(_, _, _, _, _, _, _)

yaml_seq_loop(h, t, i, seq, seen) ==
    IF i > lua_objlen(h[t]) THEN <<"ok", <<"yseq", seq>>, seen \ {t}>>
    ELSE YamlSeqNext(h, t, i, seq, yaml_encode_lua_value(h, lua_rawgeti(h[t], i), seen))

YamlSeqNext(h, t, i, seq, r) ==
    IF r[1] # "ok" THEN r
    ELSE yaml_seq_loop(h, t, i + 1, Append(seq, r[2]), r[3])

yaml_map_loop(h, t, key, map, seen, visited) ==
    YamlMapAt(h, t, map, seen, visited, lua_next(h[t], key))

YamlMapAt(h, t, map, seen, visited, p) ==
    IF p = -1 THEN Raise(InvalidNext, seen)
    ELSE IF p = 0 THEN <<"ok", <<"ymap", map>>, seen \ {t}>>
    ELSE IF p \in visited THEN Hang
    ELSE IF ~lua_isstring(h[t].ent[p][1]) THEN Raise("yaml mapping keys must be strings", seen)
    ELSE IF lua_type(h[t].ent[p][2]) = "nil"
    THEN yaml_map_loop(h, t, h[t].ent[p][1], map, seen, visited \cup {p})
    ELSE YamlMapNext(h, t, map, visited, p, lua_tostring(h[t].ent[p][1]),
                     yaml_encode_lua_value(h, h[t].ent[p][2], seen))

YamlMapNext(h, t, map, visited, p, ks, r) ==
    IF r[1] # "ok" THEN r
    ELSE yaml_map_loop(h, t, ks, ObjSet(map, CStr(ks[2]), r[2]), r[3], visited \cup {p})

yaml_encode_lua_table(h, t, seen) ==
    IF t \in seen THEN Raise("cannot serialize cyclic table to yaml", seen)
    ELSE IF yaml_is_array(h[t]) THEN yaml_seq_loop(h, t, 1, <<>>, seen \cup {t})
    ELSE yaml_map_loop(h, t, Nil, <<>>, seen \cup {t}, {})

yaml_encode_lua_value(h, v, seen) ==
    CASE lua_type(v) = "nil" -> <<"ok", YNull, seen>>
      [] lua_type(v) = "boolean" -> <<"ok", YScalar(YamlBool(v[2])), seen>>
      [] lua_type(v) = "number" -> <<"ok", YScalar(YamlDouble(v)), seen>>
      [] lua_type(v) = "string" -> <<"ok", YScalar(CStr(v[2])), seen>>
      [] lua_type(v) = "table" -> yaml_encode_lua_table(h, v[2], seen)
      [] OTHER -> Raise("unsupported Lua type for yaml serialization", seen)

yamlserialize(h, t) == yaml_encode_lua_value(h, Ref(t), unordered_set)

(* ------------------------------- TOML --------------------------------- *)

\* is_array of the TOML library: the walk returns false at the first key that is a
\* number, or whose lua_tointeger is below 1 or above lua_objlen
toml_is_array(T) ==
    \A j \in 1..Len(T.ent) :
        ~(\/ lua_type(T.ent[j][1]) = "number"
          \/ lua_tointeger(T.ent[j][1]) < 1
          \/ lua_tointeger(T.ent[j][1]) > lua_objlen(T))

\* tbl.insert(key, v): a key already in the table keeps its value
TomlInsert(tbl, k, v) == IF k \in DOMAIN tbl THEN tbl ELSE ObjSet(tbl, k, v)

RECURSIVE toml_encode_lua_array(_, _, _, _, _)
RECURSIVE TomlArrayNext(_, _, _, _, _)
RECURSIVE toml_encode_lua_table(_, _, _)
RECURSIVE toml_table_loop(_, _, _, _, _, _)
RECURSIVE TomlTableAt(_, _, _, _, _, _)
RECURSIVE TomlTableNext(_, _, _, _, _, _, _)
RECURSIVE toml_encode_entry(_, _, _, _)

\* the switch on lua_type shared by encode_lua_array and encode_lua_table
toml_encode_entry(h, v, seen, what) ==
    CASE lua_type(v) = "string" -> <<"ok", <<"tstr", CStr(v[2])>>, seen>>
      [] lua_type(v) = "number" -> <<"ok", <<"tfloat", v[2], v[3]>>, seen>>
      [] lua_type(v) = "boolean" -> <<"ok", <<"tbool", v[2]>>, seen>>
      [] lua_type(v) = "table" ->
            IF toml_is_array(h[v[2]]) THEN toml_encode_lua_array(h, v[2], 1, <<>>, seen)
            ELSE toml_encode_lua_table(h, v[2], seen)
      [] OTHER -> Raise(what, seen)

\* encode_lua_array: no entry in `seen` is made for the array itself
toml_encode_lua_array(h, t, i, arr, seen) ==
    IF i > lua_objlen(h[t]) THEN <<"ok", <<"tarr", arr>>, seen>>
    ELSE TomlArrayNext(h, t, i, arr,
                       toml_encode_entry(h, lua_rawgeti(h[t], i), seen,
                                         "unsupported lua type for toml array"))

TomlArrayNext(h, t, i, arr, r) ==
    IF r[1] # "ok" THEN r
    ELSE toml_encode_lua_array(h, t, i + 1, Append(arr, r[2]), r[3])

toml_table_loop(h, t, key, tbl, seen, visited) ==
    TomlTableAt(h, t, tbl, seen, visited, lua_next(h[t], key))

TomlTableAt(h, t, tbl, seen, visited, p) ==
    IF p = -1 THEN Raise(InvalidNext, seen)
    ELSE IF p = 0 THEN <<"ok", <<"ttable", tbl>>, seen \ {t}>>
    ELSE IF p \in visited THEN Hang
    ELSE IF ~lua_isstring(h[t].ent[p][1]) THEN Raise("toml keys must be strings", seen)
    ELSE TomlTableNext(h, t, tbl, visited, p, lua_tostring(h[t].ent[p][1]),
                       toml_encode_entry(h, h[t].ent[p][2], seen,
                                         "unsupported lua type for toml table"))

TomlTableNext(h, t, tbl, visited, p, ks, r) ==
    IF r[1] # "ok" THEN r
    ELSE toml_table_loop(h, t, ks, TomlInsert(tbl, CStr(ks[2]), r[2]), r[3], visited \cup {p})

toml_encode_lua_table(h, t, seen) ==
    IF t \in seen THEN Raise("cyclic tables not allowed in toml", seen)
    ELSE toml_table_loop(h, t, Nil, <<>>, seen \cup {t}, {})

tomlserialize(h, t) == toml_encode_lua_table(h, t, unordered_set)

(* -------------------------------- XML --------------------------------- *)

TAB == "\t"
LF == "\n"

FieldTag == Str(<<"t", "a", "g">>)
FieldAttr == Str(<<"a", "t", "t", "r">>)
FieldText == Str(<<"t", "e", "x", "t">>)
FieldChildren == Str(<<"c", "h", "i", "l", "d", "r", "e", "n">>)

\* lua_gettable with a string key
lua_gettable(T, k) == IF HasKey(T, k) THEN T.ent[KeyPos(T, k)][2] ELSE Nil

\* the five replacements of xml_escape_append's switch
EscapeChar(c) ==
    CASE c = "&" -> <<"&", "a", "m", "p", ";">>
      [] c = "<" -> <<"&", "l", "t", ";">>
      [] c = ">" -> <<"&", "g", "t", ";">>
      [] c = "\"" -> <<"&", "q", "u", "o", "t", ";">>
      [] c = "'" -> <<"&", "a", "p", "o", "s", ";">>
      [] OTHER -> <<c>>

\* for (p = s; *p; ++p): the walk ends at the first zero byte
RECURSIVE xml_escape_append(_, _)
xml_escape_append(o, s) ==
    IF s = <<>> \/ Head(s) = NUL THEN o
    ELSE xml_escape_append(o \o EscapeChar(Head(s)), Tail(s))

\* an emitter that writes no indentation
emit_indent_none(o, depth) == o

RECURSIVE emit_indent(_, _)
emit_indent(o, depth) == IF depth <= 0 THEN o ELSE emit_indent(o \o <<TAB>>, depth - 1)

\* get_field_string: <<"nil">>, <<"ok", bytes>> or the error
GetFieldString(v) ==
    IF lua_type(v) = "nil" THEN Nil
    ELSE IF ~lua_isstring(v) THEN Err("xml.%s must be a string")
    ELSE <<"ok", lua_tostring(v)[2]>>

get_field_string(T, key) == GetFieldString(lua_gettable(T, key))

\* one attribute: ' k="escaped v"', k read as a C string
EmitAttribute(o, ks, vs) ==
    xml_escape_append(o \o <<" ">> \o CStr(ks[2]) \o <<"=", "\"">>, vs[2]) \o <<"\"">>

RECURSIVE emit_attributes(_, _, _, _)
RECURSIVE EmitAttributesAt(_, _, _, _)

emit_attributes(A, key, o, visited) == EmitAttributesAt(A, o, visited, lua_next(A, key))

EmitAttributesAt(A, o, visited, p) ==
    IF p = -1 THEN Err(InvalidNext)
    ELSE IF p = 0 THEN <<"ok", o>>
    ELSE IF p \in visited THEN Hang
    ELSE IF ~lua_isstring(A.ent[p][1]) THEN Err("xml.attr keys must be strings")
    ELSE IF ~lua_isstring(A.ent[p][2]) THEN Err("xml.attr values must be strings")
    ELSE emit_attributes(A, lua_tostring(A.ent[p][1]),
                         EmitAttribute(o, lua_tostring(A.ent[p][1]), lua_tostring(A.ent[p][2])),
                         visited \cup {p})

RECURSIVE emit_element(_, _, _, _, _)
RECURSIVE EmitElementFields(_, _, _, _, _, _, _, _, _)
RECURSIVE EmitElementBody(_, _, _, _, _, _, _, _)
RECURSIVE EmitElementClose(_, _, _, _)
RECURSIVE emit_children(_, _, _, _, _, _)
RECURSIVE EmitChildrenAt(_, _, _, _, _, _)
RECURSIVE EmitChildrenNext(_, _, _, _, _)

emit_children(h, c, i, seen, o, depth) ==
    IF i > lua_objlen(h[c]) THEN <<"ok", o, seen>>
    ELSE EmitChildrenAt(h, c, i, seen, o, depth)

EmitChildrenAt(h, c, i, seen, o, depth) ==
    IF lua_type(lua_rawgeti(h[c], i)) # "table" THEN Raise("xml.children entries must be tables", seen)
    ELSE EmitChildrenNext(h, c, i, depth, emit_element(h, lua_rawgeti(h[c], i)[2], seen, o, depth))

EmitChildrenNext(h, c, i, depth, r) ==
    IF r[1] # "ok" THEN r
    ELSE emit_children(h, c, i + 1, r[3], r[2], depth)

\* emit_element: the guard, the four fields, the start tag, the body, erase
emit_element(h, t, seen, o, depth) ==
    IF t \in seen THEN Raise("cannot serialize cyclic table to xml", seen)
    ELSE EmitElementFields(h, t, seen \cup {t}, o, depth,
                           get_field_string(h[t], FieldTag), lua_gettable(h[t], FieldAttr),
                           get_field_string(h[t], FieldText), lua_gettable(h[t], FieldChildren))

EmitElementFields(h, t, seen, o, depth, tag, attr, text, children) ==
    IF tag[1] = "err" THEN Raise(tag[2], seen)
    ELSE IF tag = Nil \/ Len(tag[2]) = 0 THEN Raise("xml element missing non-empty .tag", seen)
    ELSE IF lua_type(attr) \notin {"nil", "table"} THEN Raise("xml.attr must be a table or nil", seen)
    ELSE IF text[1] = "err" THEN Raise(text[2], seen)
    ELSE IF lua_type(children) \notin {"nil", "table"}
    THEN Raise("xml.children must be a table or nil", seen)
    ELSE EmitElementBody(h, t, seen, depth, tag[2], text, children,
                         IF lua_type(attr) = "nil"
                         THEN <<"ok", emit_indent(o, depth) \o <<"<">> \o tag[2]>>
                         ELSE emit_attributes(h[attr[2]], Nil,
                                              emit_indent(o, depth) \o <<"<">> \o tag[2], {}))

HasChildren(h, children) == lua_type(children) # "nil" /\ lua_objlen(h[children[2]]) > 0

HasText(text) == text # Nil /\ Len(text[2]) > 0

EmitText(o, text) == IF HasText(text) THEN xml_escape_append(o, text[2]) ELSE o

CloseTag(tag) == <<"<", "/">> \o tag \o <<">", LF>>

\* a: the start tag with its attributes, or the error emit_attributes raised
EmitElementBody(h, t, seen, depth, tag, text, children, a) ==
    IF a[1] = "err" THEN Raise(a[2], seen)
    ELSE IF a[1] # "ok" THEN a
    ELSE IF ~HasChildren(h, children) /\ ~HasText(text)
    THEN <<"ok", a[2] \o <<"/", ">", LF>>, seen \ {t}>>
    ELSE IF ~HasChildren(h, children)
    THEN <<"ok", EmitText(a[2] \o <<">">>, text) \o CloseTag(tag), seen \ {t}>>
    ELSE EmitElementClose(t, depth, tag,
                          emit_children(h, children[2], 1, seen,
                                        EmitText(a[2] \o <<">">>, text) \o <<LF>>, depth + 1))

EmitElementClose(t, depth, tag, r) ==
    IF r[1] # "ok" THEN r
    ELSE <<"ok", emit_indent(r[2], depth) \o CloseTag(tag), r[3] \ {t}>>

xmlserialize(h, t) == emit_element(h, t, unordered_set, <<>>, 0)

(* ---------------------- texts and decoded values ---------------------- *)

\* A text handed to deserialize is [len, tree]: its length in bytes and what the
\* format library's parser makes of it ("malformed": a parse error).  Every
\* document an emitter writes has at least one byte.
EmptyText == [len |-> 0, tree |-> <<"malformed">>]
Malformed == [len |-> 1, tree |-> <<"malformed">>]
TextOf(doc) == [len |-> 1, tree |-> doc]

\* A decoded table is <<"tree", ent>>, ent its <<key, value>> entries in the
\* order they were first set.
NewTable == <<"tree", <<>>>>

EntHas(ent, k) == \E j \in 1..Len(ent) : ent[j][1] = k

EntDel(ent, k) == SelectSeq(ent, LAMBDA e : e[1] # k)

\* t[k] = v (lua_settable / lua_rawseti): nil removes the entry
TreeSet(T, k, v) ==
    IF v = Nil THEN <<"tree", EntDel(T[2], k)>>
    ELSE IF EntHas(T[2], k)
    THEN <<"tree", [j \in 1..Len(T[2]) |-> IF T[2][j][1] = k THEN <<k, v>> ELSE T[2][j]]>>
    ELSE <<"tree", Append(T[2], <<k, v>>)>>

RECURSIVE SetToSeq(_)
SetToSeq(S) ==
    IF S = {} THEN <<>>
    ELSE LET x == CHOOSE y \in S : TRUE IN <<x>> \o SetToSeq(S \ {x})

(* ---------------------------- JSON decode ----------------------------- *)

\* j.dump() read back by the parser: a number that is not finite is written as
\* null; finite numbers are written with a fraction or an exponent
RECURSIVE JsonDump(_)
JsonDump(d) ==
    CASE d[1] = "jnum" -> IF d[2] = "fin" THEN d ELSE JNull
      [] d[1] = "jarr" -> <<"jarr", [i \in 1..Len(d[2]) |-> JsonDump(d[2][i])]>>
      [] d[1] = "jobj" -> <<"jobj", [k \in DOMAIN d[2] |-> JsonDump(d[2][k])]>>
      [] OTHER -> d

\* the events json::sax_parse delivers for a document
RECURSIVE SaxEvents(_)
RECURSIVE SaxArrayEvents(_, _)
RECURSIVE SaxObjectEvents(_, _)
SaxArrayEvents(a, i) ==
    IF i > Len(a) THEN <<>> ELSE SaxEvents(a[i]) \o SaxArrayEvents(a, i + 1)
SaxObjectEvents(o, ks) ==
    IF ks = <<>> THEN <<>>
    ELSE <<<<"key", Head(ks)>>>> \o SaxEvents(o[Head(ks)]) \o SaxObjectEvents(o, Tail(ks))
SaxEvents(d) ==
    CASE d[1] = "jnull" -> <<<<"null">>>>
      [] d[1] = "jbool" -> <<<<"boolean", d[2]>>>>
      [] d[1] = "jnum" -> <<<<"number_float", d[2], d[3]>>>>
      [] d[1] = "jint" -> <<<<"number_integer", d[2]>>>>
      [] d[1] = "jstr" -> <<<<"string", d[2]>>>>
      [] d[1] = "jarr" -> <<<<"start_array">>>> \o SaxArrayEvents(d[2], 1) \o <<<<"end_array">>>>
      [] d[1] = "jobj" -> <<<<"start_object">>>> \o SaxObjectEvents(d[2], SetToSeq(DOMAIN d[2]))
                          \o <<<<"end_object">>>>

\* the handler's state: L the Lua stack (last = top), stack the open frames
SaxInit == [L |-> <<>>, stack |-> <<>>]

Top(L) == L[Len(L)]
Pop(L, n) == SubSeq(L, 1, Len(L) - n)

\* an insert_value that stores every array value as element 1
insert_value_first(st) ==
    IF st.stack = <<>> THEN st
    ELSE IF Top(st.stack).isArray
    THEN [st EXCEPT !.L = Append(Pop(st.L, 2), TreeSet(st.L[Len(st.L) - 1], Num(1), Top(st.L)))]
    ELSE [st EXCEPT !.L = Append(Pop(st.L, 3),
                                 TreeSet(st.L[Len(st.L) - 2], st.L[Len(st.L) - 1], Top(st.L)))]

\* lua_sax::insert_value
insert_value(st) ==
    IF st.stack = <<>> THEN st
    ELSE LET f == Top(st.stack)
             n == Len(st.L)
         IN  IF f.isArray
             THEN [L |-> Append(Pop(st.L, 2), TreeSet(st.L[n - 1], Num(f.index + 1), st.L[n])),
                   stack |-> Append(Pop(st.stack, 1), [f EXCEPT !.index = f.index + 1])]
             ELSE [L |-> Append(Pop(st.L, 3), TreeSet(st.L[n - 2], st.L[n - 1], st.L[n])),
                   stack |-> st.stack]

SaxPush(st, v) == [st EXCEPT !.L = Append(st.L, v)]

\* one callback of lua_sax
sax_event(st, ev) ==
    CASE ev[1] = "start_object" ->
            [L |-> Append(st.L, NewTable),
             stack |-> Append(st.stack, [isArray |-> FALSE, index |-> 0])]
      [] ev[1] = "start_array" ->
            [L |-> Append(st.L, NewTable),
             stack |-> Append(st.stack, [isArray |-> TRUE, index |-> 0])]
      [] ev[1] \in {"end_object", "end_array"} ->
            insert_value([st EXCEPT !.stack = Pop(st.stack, 1)])
      [] ev[1] = "key" -> SaxPush(st, Str(ev[2]))
      [] ev[1] = "null" -> insert_value(SaxPush(st, Nil))
      [] ev[1] = "string" -> insert_value(SaxPush(st, Str(ev[2])))
      [] ev[1] = "boolean" -> insert_value(SaxPush(st, Bool(ev[2])))
      [] ev[1] = "number_integer" -> insert_value(SaxPush(st, Num(ev[2])))
      [] ev[1] = "number_float" -> insert_value(SaxPush(st, <<"number", ev[2], ev[3]>>))

RECURSIVE sax_parse(_, _)
sax_parse(st, evs) == IF evs = <<>> THEN st ELSE sax_parse(sax_event(st, Head(evs)), Tail(evs))

jsondeserialize(text) ==
    IF text.len = 0 THEN Err("cannot deserialize empty string")
    ELSE IF text.tree = <<"malformed">> THEN Err("%s")
    ELSE <<"ok", Top(sax_parse(SaxInit, SaxEvents(text.tree)).L)>>

(* ---------------------------- YAML decode ----------------------------- *)

\* parse_number: strtod must consume the whole C string and at least one byte
ParseNumberEnd(c, r) == r.conv /\ r.end > Len(c)

ParseNumberC(c) == ParseNumberEnd(c, strtod(c))

parse_number(s) == ParseNumberC(CStr(s))

\* lua_pushnumber(L, num) of the number parse_number read
ParsedNumber(r) == <<"number", r.kind, r.n>>

YamlTrue == {<<"t", "r", "u", "e">>, <<"T", "r", "u", "e">>, <<"T", "R", "U", "E">>}
YamlFalse == {<<"f", "a", "l", "s", "e">>, <<"F", "a", "l", "s", "e">>, <<"F", "A", "L", "S", "E">>}

RECURSIVE push_yaml_node(_)
RECURSIVE push_yaml_seq(_, _, _)
RECURSIVE push_yaml_map(_, _, _)

push_yaml_seq(n, i, T) ==
    IF i > Len(n) THEN T
    ELSE push_yaml_seq(n, i + 1, TreeSet(T, Num(i), push_yaml_node(n[i])))

push_yaml_map(m, ks, T) ==
    IF ks = <<>> THEN T
    ELSE push_yaml_map(m, Tail(ks), TreeSet(T, Str(Head(ks)), push_yaml_node(m[Head(ks)])))

push_yaml_node(n) ==
    CASE n[1] = "ynull" -> Nil
      [] n[1] = "yseq" -> push_yaml_seq(n[2], 1, NewTable)
      [] n[1] = "ymap" -> push_yaml_map(n[2], SetToSeq(DOMAIN n[2]), NewTable)
      [] n[1] = "yscalar" ->
            IF n[2] \in YamlTrue THEN Bool(TRUE)
            ELSE IF n[2] \in YamlFalse THEN Bool(FALSE)
            ELSE IF parse_number(n[2])
            THEN ParsedNumber(strtod(CStr(n[2])))
            ELSE Str(n[2])

yamldeserialize(text) ==
    IF text.len = 0 THEN Err("cannot deserialize empty string")
    ELSE IF text.tree = <<"malformed">> THEN Err("%s")
    ELSE <<"ok", push_yaml_node(text.tree)>>

(* ---------------------------- TOML decode ----------------------------- *)

RECURSIVE push_toml_value(_)
RECURSIVE push_toml_array(_, _, _)
RECURSIVE push_toml_table(_, _, _)

push_toml_array(a, i, T) ==
    IF i > Len(a) THEN T
    ELSE push_toml_array(a, i + 1, TreeSet(T, Num(i), push_toml_value(a[i])))

push_toml_table(m, ks, T) ==
    IF ks = <<>> THEN T
    ELSE push_toml_table(m, Tail(ks), TreeSet(T, Str(Head(ks)), push_toml_value(m[Head(ks)])))

push_toml_value(n) ==
    CASE n[1] = "tstr" -> Str(CStr(n[2]))
      [] n[1] = "tint" -> Num(n[2])
      [] n[1] = "tfloat" -> <<"number", n[2], n[3]>>
      [] n[1] = "tbool" -> Bool(n[2])
      [] n[1] = "tarr" -> push_toml_array(n[2], 1, NewTable)
      [] n[1] = "ttable" -> push_toml_table(n[2], SetToSeq(DOMAIN n[2]), NewTable)
      [] OTHER -> Nil

\* toml::parse of the empty text is the empty table: tomldeserialize tests no length
TomlParse(text) == IF text.len = 0 THEN <<"ttable", <<>>>> ELSE text.tree

tomldeserialize(text) ==
    IF TomlParse(text) = <<"malformed">> THEN Err("%s")
    ELSE <<"ok", push_toml_table(TomlParse(text)[2], SetToSeq(DOMAIN TomlParse(text)[2]), NewTable)>>

(* ----------------------------- XML decode ----------------------------- *)

\* An element of the parser's tree is [name, attrs, text, children]: attrs the
\* <<name, value>> pairs in document order, text the element's direct text (<<>>
\* when GetText() gives none), children the child elements in order.
NoRoot == [len |-> 1, tree |-> <<"noroot">>]

RECURSIVE push_xml_element(_)
RECURSIVE push_attrs(_, _, _)
RECURSIVE push_children(_, _, _)

push_attrs(as, i, T) ==
    IF i > Len(as) THEN T
    ELSE push_attrs(as, i + 1, TreeSet(T, Str(as[i][1]), Str(as[i][2])))

push_children(cs, i, T) ==
    IF i > Len(cs) THEN T
    ELSE push_children(cs, i + 1, TreeSet(T, Num(i), push_xml_element(cs[i])))

push_xml_element(el) ==
    LET t1 == TreeSet(NewTable, FieldTag, Str(el.name))
        t2 == TreeSet(t1, FieldAttr, push_attrs(el.attrs, 1, NewTable))
        t3 == IF el.text # <<>> THEN TreeSet(t2, FieldText, Str(el.text)) ELSE t2
    IN  TreeSet(t3, FieldChildren, push_children(el.children, 1, NewTable))

xmldeserialize(text) ==
    IF text.len = 0 THEN Err("cannot deserialize empty string")
    ELSE IF text.tree = <<"malformed">> THEN Err("xml parse error: %s")
    ELSE IF text.tree = <<"noroot">> THEN Err("xml has no root element")
    ELSE <<"ok", push_xml_element(text.tree[2])>>

(* --------------------------- the calls as steps ----------------------- *)

\* pc: "idle" (the host holds heap and root), "serialized" (out is what
\* <fmt>.serialize(root) gave), "deserialized" (val is what <fmt>.deserialize(inp)
\* gave). guard is the identity set as the latest serialize call left it when it
\* returned or raised, found the set the call before that one had left.
Start(x) ==
    /\ heap = x.heap
    /\ root = x.root
    /\ pc = "idle"
    /\ fmt = "none"
    /\ out = <<"none">>
    /\ inp = EmptyText
    /\ val = <<"none">>
    /\ guard = {}
    /\ found = {}

\* a serialize call on the host's table whose encoder gave r; a raise reaches the
\* caller as its message. The host may call again, in any format, on the same
\* table; a call that never returns is followed by no other.
Serialized(f, r) ==
    /\ pc = "idle" \/ (pc = "serialized" /\ out # Hang)
    /\ pc' = "serialized"
    /\ fmt' = f
    /\ out' = IF r[1] = "err" THEN Err(r[2]) ELSE r
    /\ guard' = IF r = Hang THEN guard ELSE r[3]
    /\ found' = guard
    /\ UNCHANGED <<heap, root, inp, val>>

JsonSerialize == Serialized("json", jsonserialize(heap, root))
YamlSerialize == Serialized("yaml", yamlserialize(heap, root))
TomlSerialize == Serialized("toml", tomlserialize(heap, root))
XmlSerialize == Serialized("xml", xmlserialize(heap, root))

\* the texts a deserialize call is given: the empty one or a malformed one by a
\* host that has serialized nothing, and the document the same format has just
\* written
Texts(f) ==
    IF pc = "idle" THEN {EmptyText, Malformed}
    ELSE IF pc = "serialized" /\ fmt = f /\ out[1] = "ok" /\ f # "xml"
    THEN {TextOf(IF f = "json" THEN JsonDump(out[2]) ELSE out[2])}
    ELSE {}

XmlDoc == [name |-> <<"a">>, attrs |-> <<<<<<"i", "d">>, <<"1">>>>>>, text |-> <<"x">>,
           children |-> <<[name |-> <<"b">>, attrs |-> <<>>, text |-> <<>>, children |-> <<>>]>>]

XmlTexts == IF pc = "idle" THEN {NoRoot, TextOf(<<"xel", XmlDoc>>)} ELSE {}

Deserialized(f, text, r) ==
    /\ pc \in {"idle", "serialized"}
    /\ pc' = "deserialized"
    /\ fmt' = f
    /\ inp' = text
    /\ val' = r
    /\ UNCHANGED <<heap, root, out, guard, found>>

JsonDeserialize == \E text \in Texts("json") : Deserialized("json", text, jsondeserialize(text))
YamlDeserialize == \E text \in Texts("yaml") : Deserialized("yaml", text, yamldeserialize(text))
TomlDeserialize == \E text \in Texts("toml") : Deserialized("toml", text, tomldeserialize(text))
XmlDeserialize ==
    \E text \in Texts("xml") \cup XmlTexts : Deserialized("xml", text, xmldeserialize(text))

Next ==
    \/ JsonSerialize
    \/ YamlSerialize
    \/ TomlSerialize
    \/ XmlSerialize
    \/ JsonDeserialize
    \/ YamlDeserialize
    \/ TomlDeserialize
    \/ XmlDeserialize

(* ------------------------- host tables: classifier -------------------- *)

EmptyTable == [ent |-> <<>>, border |-> 0]

\* the borders lua_objlen may report for a table with these entries: n >= 0 with
\* t[n] present (or n = 0) and t[n + 1] absent
Borders(ent) ==
    {n \in {0} \cup {Trunc(ent[j][1][3]) : j \in {i \in 1..Len(ent) : IsIntegral(ent[i][1])}} :
        /\ n >= 0
        /\ n = 0 \/ EntHas(ent, Num(n))
        /\ ~EntHas(ent, Num(n + 1))}

TablesOf(ents) == UNION {{[ent |-> e, border |-> b] : b \in Borders(e)} : e \in ents}

\* the sequences of at most n distinct keys of K: the orders lua_next may take
RECURSIVE Layouts(_, _)
Layouts(K, n) ==
    IF n = 0 THEN {<<>>}
    ELSE {<<>>} \cup UNION {{<<k>> \o l : l \in Layouts(K \ {k}, n - 1)} : k \in K}

WithValue(l, v) == [j \in 1..Len(l) |-> <<l[j], v>>]

ClassifyKeys ==
    {Num(1), Num(2), Num(3), Tenths(15), Str(<<"k">>), Str(<<"1">>), Bool(TRUE)}

\* a table holding only the table `child`, as element 1 or under the key "k"
Holder(link, child) ==
    [ent |-> <<<<link, Ref(child)>>>>, border |-> IF link = Num(1) THEN 1 ELSE 0]

\* an empty table d levels below the root
NestedEmpty ==
    UNION {{[heap |-> [i \in 1..d + 1 |-> IF i = d + 1 THEN EmptyTable
                                          ELSE Holder(links[i], i + 1)],
             root |-> 1] : links \in [1..d -> {Num(1), Str(<<"k">>)}]} : d \in 1..MaxDepth}

ClassifyFamily ==
    {[heap |-> <<T>>, root |-> 1] :
        T \in TablesOf({WithValue(l, Str(<<"a">>)) : l \in Layouts(ClassifyKeys, MaxKeys)})}
    \cup NestedEmpty

InitClassify == \E x \in ClassifyFamily : Start(x)

SpecClassify == InitClassify /\ [][Next]_vars

(* --------------------------- C5, C6, C7 -------------------------------- *)

\* the length of the dense prefix: keys 1..n all present, n + 1 absent
DensePrefix(T) ==
    CHOOSE n \in 0..Len(T.ent) :
        /\ \A i \in 1..n : HasKey(T, Num(i))
        /\ ~HasKey(T, Num(n + 1))

\* the classification rule as stated: every key is an integer within [1, len]
RuleSequence(T) ==
    \A j \in 1..Len(T.ent) :
        /\ IsIntegral(T.ent[j][1])
        /\ T.ent[j][1][3] >= 10
        /\ T.ent[j][1][3] <= 10 * DensePrefix(T)

IsSequenceDoc(d) == d[1] \in {"jarr", "yseq"}

\* C5 (as claimed): once json.serialize or yaml.serialize has run on a non-empty
\* table, the JSON classifier and the YAML classifier both answered Sequence
\* exactly when every key is an integer within [1, len], and the document written
\* is an array exactly in that case.
C5_ClassifiersFollowRule ==
    (pc = "serialized" /\ fmt \in {"json", "yaml"} /\ Len(heap[root].ent) > 0) =>
        /\ json_is_array(heap[root]) = RuleSequence(heap[root])
        /\ yaml_is_array(heap[root]) = RuleSequence(heap[root])
        /\ out[1] = "ok" => (IsSequenceDoc(out[2]) = RuleSequence(heap[root]))

RECURSIVE NoEmptyObject(_)
NoEmptyObject(d) ==
    CASE d[1] = "jobj" -> DOMAIN d[2] # {} /\ \A k \in DOMAIN d[2] : NoEmptyObject(d[2][k])
      [] d[1] = "jarr" -> \A i \in 1..Len(d[2]) : NoEmptyObject(d[2][i])
      [] OTHER -> TRUE

\* C6 (as claimed): json.serialize writes [] for an empty table, at the top level
\* and nested at any depth: the call on an empty root gives the empty array, and
\* no document holds an empty object (a table with a key never gives one).
C6_EmptyTableIsEmptyArray ==
    (pc = "serialized" /\ fmt = "json") =>
        /\ Len(heap[root].ent) = 0 => out = <<"ok", <<"jarr", <<>>>>, {}>>
        /\ out[1] = "ok" => NoEmptyObject(out[2])

\* a table whose keys are all integers but not the dense 1..N, holding strings
IsHoleTable(T) ==
    /\ Len(T.ent) > 0
    /\ \A j \in 1..Len(T.ent) : IsIntegral(T.ent[j][1]) /\ lua_type(T.ent[j][2]) = "string"
    /\ ~RuleSequence(T)

\* the object the claim expects: one entry per key, under the key's decimal text
HoleObject(T, f) ==
    [ks \in {TenthsToChars(T.ent[j][1][3]) : j \in 1..Len(T.ent)} |->
        <<IF f = "json" THEN "jstr" ELSE "yscalar",
          T.ent[CHOOSE j \in 1..Len(T.ent) : TenthsToChars(T.ent[j][1][3]) = ks][2][2]>>]

\* C7 (as claimed): json.serialize and yaml.serialize of a table with integer keys
\* and a hole succeed and give the object with one entry per key, keyed by the
\* key's decimal text.
C7_HoleTableIsObject ==
    (pc = "serialized" /\ fmt \in {"json", "yaml"} /\ IsHoleTable(heap[root])) =>
        /\ out[1] = "ok"
        /\ out[2] = <<IF fmt = "json" THEN "jobj" ELSE "ymap", HoleObject(heap[root], fmt)>>

(* ---------------------- host tables: sharing and cycles ----------------- *)

\* a table of two entries: a mapping under the string keys k1, k2 or the sequence
\* {v1, v2}
PairTable(kind, k1, k2, v1, v2) ==
    IF kind = "seq"
    THEN [ent |-> <<<<Num(1), v1>>, <<Num(2), v2>>>>, border |-> 2]
    ELSE [ent |-> <<<<Str(k1), v1>>, <<Str(k2), v2>>>>, border |-> 0]

SlotValues == {Str(<<"x">>)} \cup {Ref(t) : t \in 1..MaxTables}

PairTables ==
    {PairTable(kind, <<"a">>, <<"b">>, v1, v2) :
        kind \in {"seq", "map"}, v1 \in SlotValues, v2 \in SlotValues}

\* element records for xml.serialize: table 1 is <e> with the children list 2,
\* table 2 lists two of the elements 1 and 3, table 3 is <f> with no children or
\* with the same list
Element(tag, kids) ==
    [ent |-> <<<<FieldTag, Str(tag)>>>> \o
             (IF kids = 0 THEN <<>> ELSE <<<<FieldChildren, Ref(kids)>>>>),
     border |-> 0]

ElementHeaps ==
    {<<Element(<<"e">>, 2),
       [ent |-> <<<<Num(1), Ref(a)>>, <<Num(2), Ref(b)>>>>, border |-> 2],
       Element(<<"f">>, k)>> : a \in {1, 3}, b \in {1, 3}, k \in {0, 2}}

CycleFamily ==
    {[heap |-> h, root |-> 1] : h \in [1..MaxTables -> PairTables] \cup ElementHeaps}

InitCycle == \E x \in CycleFamily : Start(x)

SpecCycle == InitCycle /\ [][Next]_vars

(* ------------------------------ C3, C4 --------------------------------- *)

\* the tables a table holds as values
Children(h, t) ==
    {h[t].ent[j][2][2] : j \in {i \in 1..Len(h[t].ent) : lua_type(h[t].ent[i][2]) = "table"}}

\* the tables reached from the set S in one step or more
RECURSIVE ReachedFrom(_, _, _)
ReachedFrom(h, S, n) ==
    IF n = 0 THEN {}
    ELSE UNION {Children(h, t) : t \in S} \cup
         ReachedFrom(h, UNION {Children(h, t) : t \in S}, n - 1)

Reaches(h, t) == ReachedFrom(h, {t}, Len(h))

ReachesItself(h, t) == t \in Reaches(h, t)

Acyclic(h, r) == \A t \in {r} \cup Reaches(h, r) : ~ReachesItself(h, t)

IsElementRecord(T) ==
    \E j \in 1..Len(T.ent) :
        T.ent[j][1] = FieldTag /\ lua_type(T.ent[j][2]) = "string" /\ Len(T.ent[j][2][2]) > 0

IsChildrenList(T) ==
    /\ T.border = Len(T.ent)
    /\ \A j \in 1..Len(T.ent) : T.ent[j][1] = Num(j) /\ lua_type(T.ent[j][2]) = "table"

\* xml.serialize takes element records: the root is one and every table is an
\* element record or a list of them
ElementShaped(h, r) ==
    /\ IsElementRecord(h[r])
    /\ \A t \in 1..Len(h) : IsElementRecord(h[t]) \/ IsChildrenList(h[t])

\* the input is one the format takes
Takes(f, h, r) == f = "xml" => ElementShaped(h, r)

CyclicError(f) ==
    CASE f = "json" -> Err("cannot serialize cyclic table")
      [] f = "yaml" -> Err("cannot serialize cyclic table to yaml")
      [] f = "toml" -> Err("cyclic tables not allowed in toml")
      [] f = "xml" -> Err("cannot serialize cyclic table to xml")

\* C3 (as claimed): serialize of a table that reaches itself through its own
\* contents, directly or through a chain of nested tables, fails with the
\* cyclic-structure error, in each of the four formats.
C3_CyclicIsRejected ==
    (pc = "serialized" /\ ReachesItself(heap, root) /\ Takes(fmt, heap, root)) =>
        out = CyclicError(fmt)

\* some table of the input holds the same table twice
SharedSiblings(h, r) ==
    \E p \in {r} \cup Reaches(h, r) :
        \E j, k \in 1..Len(h[p].ent) :
            j # k /\ lua_type(h[p].ent[j][2]) = "table" /\ h[p].ent[j][2] = h[p].ent[k][2]

\* C4 (as claimed): serialize of an acyclic table that holds the same table twice
\* as siblings succeeds in each of the four formats, and no serialize of an
\* acyclic input reports the cyclic-structure error.
C4_SharedSiblingsAccepted ==
    (pc = "serialized" /\ Acyclic(heap, root) /\ Takes(fmt, heap, root)) =>
        /\ SharedSiblings(heap, root) => out[1] = "ok"
        /\ out # CyclicError(fmt)

\* the guard alone: an acyclic input never gets the cyclic-structure error
GuardSilentOnAcyclic ==
    (pc = "serialized" /\ Acyclic(heap, root)) => out # CyclicError(fmt)

(* ------------------------ host tables: round trips --------------------- *)

\* the values of the round-trip family: one or two of each scalar type, strings
\* whose text reads as a boolean or a number, a string with an embedded zero
\* byte, and the nested table 2
RoundValues ==
    {Bool(TRUE), Tenths(15), NumInf, Str(<<"a">>), Str(<<"t", "r", "u", "e">>),
     Str(<<"F", "A", "L", "S", "E">>), Str(<<"1", "2">>), Str(<<"1", "e", "3">>),
     Str(<<"a", NUL, "b">>), Ref(2)}

\* sequences {v1, .., vn}, n <= MaxElems
RoundSequences ==
    UNION {{[ent |-> [j \in 1..n |-> <<Num(j), vs[j]>>], border |-> n] :
                vs \in [1..n -> RoundValues]} : n \in 0..MaxElems}

\* mappings under the string keys "k", "s", in either order
RoundMappings ==
    UNION {{[ent |-> [j \in 1..Len(l) |-> <<l[j], vs[j]>>], border |-> 0] :
                vs \in [1..Len(l) -> RoundValues]} :
           l \in Layouts({Str(<<"k">>), Str(<<"s">>)}, MaxElems) \ {<<>>}}

RoundNested ==
    {EmptyTable,
     [ent |-> <<<<Num(1), Str(<<"a">>)>>>>, border |-> 1],
     [ent |-> <<<<Str(<<"k">>), Str(<<"a">>)>>>>, border |-> 0],
     [ent |-> <<<<Str(<<"k">>), Num(1)>>>>, border |-> 0]}

RoundFamily ==
    {[heap |-> <<T, N>>, root |-> 1] : T \in RoundSequences \cup RoundMappings, N \in RoundNested}

InitRound == \E x \in RoundFamily : Start(x)

SpecRound == InitRound /\ [][Next]_vars

(* ------------------------------ C1, C2 --------------------------------- *)

\* a host value as a value: tables by their contents
RECURSIVE ValueOf(_, _)
ValueOf(h, v) ==
    IF lua_type(v) = "table"
    THEN <<"tree", [j \in 1..Len(h[v[2]].ent) |->
                        <<h[v[2]].ent[j][1], ValueOf(h, h[v[2]].ent[j][2])>>]>>
    ELSE v

EntGet(ent, k) == ent[CHOOSE j \in 1..Len(ent) : ent[j][1] = k][2]

\* value equality: scalars by type and value, tables by keys and values
RECURSIVE ValueEqual(_, _)
ValueEqual(a, b) ==
    IF a[1] = "tree" /\ b[1] = "tree"
    THEN /\ {a[2][j][1] : j \in 1..Len(a[2])} = {b[2][j][1] : j \in 1..Len(b[2])}
         /\ \A j \in 1..Len(a[2]) : ValueEqual(a[2][j][2], EntGet(b[2], a[2][j][1]))
    ELSE a = b

\* deserialize has just read the document serialize wrote for root
ReadBack(f) ==
    /\ pc = "deserialized"
    /\ fmt = f
    /\ out[1] = "ok"
    /\ inp = TextOf(IF f = "json" THEN JsonDump(out[2]) ELSE out[2])

\* C1 (as claimed): json.serialize of a table built from booleans, numbers,
\* strings, sequences and string-keyed mappings succeeds, and
\* json.deserialize(json.serialize(v)) is value-equal to v.
C1_JsonRoundTrip ==
    /\ (pc = "serialized" /\ fmt = "json") => out[1] = "ok"
    /\ ReadBack("json") => (val[1] = "ok" /\ ValueEqual(val[2], ValueOf(heap, Ref(root))))

\* C2 (as claimed): yaml.serialize of such a table succeeds, and
\* yaml.deserialize(yaml.serialize(v)) is value-equal to v: every entry, a string
\* whatever its text included, comes back with its type and value.
C2_YamlRoundTrip ==
    /\ (pc = "serialized" /\ fmt = "yaml") => out[1] = "ok"
    /\ ReadBack("yaml") => (val[1] = "ok" /\ ValueEqual(val[2], ValueOf(heap, Ref(root))))

(* -------------------------------- C8 ----------------------------------- *)

\* C8 (as claimed): deserialize of the zero-length input fails with the
\* empty-input error in each of the four formats; none returns a value.
C8_EmptyInputRejected ==
    (pc = "deserialized" /\ inp.len = 0) => val = Err("cannot deserialize empty string")

(* ----------------------- host tables: element records ------------------ *)

XmlTextPool ==
    {<<>>, <<"x">>, <<"&">>, <<"<">>, <<">">>, <<"\"">>, <<"'">>,
     <<"a", "&", "<", "b">>, <<"x", NUL, "<">>}

\* a field value: absent or a string of the pool
XmlFieldValues == {Nil} \cup {Str(t) : t \in XmlTextPool}

\* the table with the fields that are not nil
Record(fields) == [ent |-> SelectSeq(fields, LAMBDA e : e[2] # Nil), border |-> 0]

\* a chain of d + 1 elements, each the child of the one before: element l is
\* table 2l + 1 and its children list is table 2l + 2; the last table is the
\* root's attribute table.  rt is the root's text, lt the last element's, av the
\* value of the root's attribute id; the last list holds its element twice when
\* `twice`.
ChainHeap(d, rt, lt, av, twice) ==
    [i \in 1..2 * d + 2 |->
        IF i = 2 * d + 2
        THEN Record(<<<<Str(<<"i", "d">>), IF av = Nil THEN Str(<<"1">>) ELSE av>>>>)
        ELSE IF i % 2 = 1
        THEN Record(<<<<FieldTag, Str(IF i % 4 = 1 THEN <<"a">> ELSE <<"b">>)>>,
                      <<FieldAttr, IF i = 1 /\ av # Nil THEN Ref(2 * d + 2) ELSE Nil>>,
                      <<FieldText, IF i = 1 THEN rt ELSE IF i = 2 * d + 1 THEN lt ELSE Nil>>,
                      <<FieldChildren, IF i < 2 * d + 1 THEN Ref(i + 1) ELSE Nil>>>>)
        ELSE IF twice /\ i = 2 * d
        THEN [ent |-> <<<<Num(1), Ref(i + 1)>>, <<Num(2), Ref(i + 1)>>>>, border |-> 2]
        ELSE [ent |-> <<<<Num(1), Ref(i + 1)>>>>, border |-> 1]]

XmlFamily ==
    {[heap |-> ChainHeap(d, rt, lt, av, twice), root |-> 1] :
        d \in 0..MaxDepth, rt \in XmlFieldValues, lt \in XmlFieldValues,
        av \in XmlFieldValues, twice \in BOOLEAN}

InitXml == \E x \in XmlFamily : Start(x)

SpecXml == InitXml /\ [][Next]_vars

(* ------------------------------ C9, C10 -------------------------------- *)

\* a valid element record: a non-empty string tag, attr absent or a table of
\* strings under string keys, text absent or a string, children absent or a list
\* of valid element records
RECURSIVE ValidElement(_, _, _)
ValidElement(h, t, n) ==
    /\ n > 0
    /\ IsElementRecord(h[t])
    /\ \/ lua_gettable(h[t], FieldAttr) = Nil
       \/ /\ lua_type(lua_gettable(h[t], FieldAttr)) = "table"
          /\ \A e \in {h[lua_gettable(h[t], FieldAttr)[2]].ent[j] :
                         j \in 1..Len(h[lua_gettable(h[t], FieldAttr)[2]].ent)} :
                lua_type(e[1]) = "string" /\ lua_type(e[2]) = "string"
    /\ lua_type(lua_gettable(h[t], FieldText)) \in {"nil", "string"}
    /\ \/ lua_gettable(h[t], FieldChildren) = Nil
       \/ /\ lua_type(lua_gettable(h[t], FieldChildren)) = "table"
          /\ IsChildrenList(h[lua_gettable(h[t], FieldChildren)[2]])
          /\ \A c \in Children(h, lua_gettable(h[t], FieldChildren)[2]) : ValidElement(h, c, n - 1)

Tabs(d) == [i \in 1..d |-> TAB]

\* each character replaced on its own, in order
RECURSIVE EscapeEach(_)
EscapeEach(s) == IF s = <<>> THEN <<>> ELSE EscapeChar(Head(s)) \o EscapeEach(Tail(s))

\* the escaped form of a string: what the escaping function gives, or (each) the
\* replacement of each of its characters
Escaped(each, s) == IF each THEN EscapeEach(s) ELSE xml_escape_append(<<>>, s)

\* ' k="escaped v"' for each attribute, in the table's order
RECURSIVE AttrsShape(_, _, _)
AttrsShape(each, ent, j) ==
    IF j > Len(ent) THEN <<>>
    ELSE <<" ">> \o ent[j][1][2] \o <<"=", "\"">> \o Escaped(each, ent[j][2][2]) \o <<"\"">>
         \o AttrsShape(each, ent, j + 1)

AttrsOf(each, h, attr) == IF attr = Nil THEN <<>> ELSE AttrsShape(each, h[attr[2]].ent, 1)

TextOfElement(each, text) == IF text = Nil THEN <<>> ELSE Escaped(each, text[2])

IsBare(h, text, children) ==
    /\ text = Nil \/ Len(text[2]) = 0
    /\ children = Nil \/ Len(h[children[2]].ent) = 0

\* the shape of an element at depth d, as the rule words it
RECURSIVE ElementShape(_, _, _, _)
RECURSIVE ChildrenShape(_, _, _, _, _)
RECURSIVE ElementShapeOf(_, _, _, _, _, _, _)

ElementShape(each, h, t, d) ==
    ElementShapeOf(each, h, d, lua_gettable(h[t], FieldTag)[2], lua_gettable(h[t], FieldAttr),
                   lua_gettable(h[t], FieldText), lua_gettable(h[t], FieldChildren))

ElementShapeOf(each, h, d, tag, attr, text, children) ==
    Tabs(d) \o <<"<">> \o tag \o AttrsOf(each, h, attr) \o
    (IF IsBare(h, text, children) THEN <<"/", ">", LF>>
     ELSE <<">">> \o TextOfElement(each, text) \o
          (IF children = Nil \/ Len(h[children[2]].ent) = 0 THEN <<>>
           ELSE <<LF>> \o ChildrenShape(each, h, h[children[2]].ent, 1, d + 1) \o Tabs(d)) \o
          <<"<", "/">> \o tag \o <<">", LF>>)

ChildrenShape(each, h, ent, j, d) ==
    IF j > Len(ent) THEN <<>>
    ELSE ElementShape(each, h, ent[j][2][2], d) \o ChildrenShape(each, h, ent, j + 1, d)

\* the first position at or after i holding one of the characters cs
RECURSIVE Find(_, _, _)
Find(s, i, cs) == IF i > Len(s) \/ s[i] \in cs THEN i ELSE Find(s, i + 1, cs)

\* every start tag that is not self-closing is closed by the matching end tag, in
\* nested order: `open` is the names of the elements open at position i
RECURSIVE Balanced(_, _, _)
RECURSIVE BalancedTag(_, _, _, _)
Balanced(s, i, open) ==
    IF i > Len(s) THEN open = <<>>
    ELSE IF s[i] # "<" THEN Balanced(s, i + 1, open)
    ELSE BalancedTag(s, i, open, Find(s, i, {">"}))

BalancedTag(s, i, open, e) ==
    IF i + 1 >= e \/ e > Len(s) THEN FALSE
    ELSE IF s[i + 1] = "/"
    THEN /\ open # <<>>
         /\ open[Len(open)] = SubSeq(s, i + 2, e - 1)
         /\ Balanced(s, e + 1, SubSeq(open, 1, Len(open) - 1))
    ELSE IF s[e - 1] = "/" THEN Balanced(s, e + 1, open)
    ELSE Balanced(s, e + 1, Append(open, SubSeq(s, i + 1, Find(s, i, {" ", ">"}) - 1)))

\* C9: xml.serialize of a valid element record succeeds and writes the element
\* in the stated shape: d tabs, then <tag attrs/> and a newline when it has
\* neither non-empty text nor a child, else <tag attrs>, the escaped text, and
\* when it has children a newline, the children at depth d + 1 in order and d
\* tabs, then </tag> and a newline; {tag=a} gives <a/> and every tag opened is
\* closed in nested order.
C9_XmlOutputShape ==
    (pc = "serialized" /\ fmt = "xml" /\ ValidElement(heap, root, Len(heap))) =>
        /\ out[1] = "ok"
        /\ out[2] = ElementShape(FALSE, heap, root, 0)
        /\ Balanced(out[2], 1, <<>>)
        /\ heap[root] = Element(<<"a">>, 0) => out[2] = <<"<", "a", "/", ">", LF>>
        /\ heap[root] = Record(<<<<FieldTag, Str(<<"a">>)>>, <<FieldText, Str(<<"x">>)>>>>) =>
               out[2] = <<"<", "a", ">", "x", "<", "/", "a", ">", LF>>

\* an element with text, an attribute and a child two levels down has been written
C9_Witness ==
    /\ pc = "serialized" /\ fmt = "xml" /\ out[1] = "ok"
    /\ ValidElement(heap, root, Len(heap))
    /\ HasText(get_field_string(heap[root], FieldText))
    /\ lua_gettable(heap[root], FieldAttr) # Nil
    /\ Len(heap) >= 6
    /\ Len(SelectSeq(out[2], LAMBDA c : c = TAB)) >= 3

\* C10 (as claimed): in what xml.serialize writes, every text and every attribute
\* value stands with each of its characters replaced in order (& < > " ' by
\* their entities, every other character copied unchanged).
C10_EscapesEachCharacter ==
    (pc = "serialized" /\ fmt = "xml" /\ ValidElement(heap, root, Len(heap))) =>
        /\ out[1] = "ok"
        /\ out[2] = ElementShape(TRUE, heap, root, 0)

(* -------------------------------- C11 ---------------------------------- *)

\* the root is written as a mapping: the format's classifier does not take it for
\* an array (toml.serialize writes its argument as a table whatever its keys)
EncodedAsMapping(f, T) ==
    CASE f = "json" -> ~json_is_array(T)
      [] f = "yaml" -> ~yaml_is_array(T)
      [] f = "toml" -> TRUE
      [] OTHER -> FALSE

HasNonStringKey(T) == \E j \in 1..Len(T.ent) : lua_type(T.ent[j][1]) # "string"

KeyTypeError(f) ==
    CASE f = "json" -> Err("json object keys must be strings")
      [] f = "yaml" -> Err("yaml mapping keys must be strings")
      [] f = "toml" -> Err("toml keys must be strings")

IsMappingDoc(d) == d[1] \in {"jobj", "ymap", "ttable"}

\* C11 (as claimed): in json, yaml and toml serialize, a table written as a
\* mapping that holds a key which is not a string (a number, a boolean) makes the
\* call fail with the key-type error; a mapping is written only when every key
\* of the table is a string.
C11_NonStringKeyRejected ==
    (pc = "serialized" /\ fmt \in {"json", "yaml", "toml"}) =>
        /\ (EncodedAsMapping(fmt, heap[root]) /\ HasNonStringKey(heap[root])) =>
               out = KeyTypeError(fmt)
        /\ (out[1] = "ok" /\ IsMappingDoc(out[2])) => ~HasNonStringKey(heap[root])

(* -------------------------------- C14 ---------------------------------- *)

\* the looser rule as stated: an array unless some key is not a number or is an
\* integer outside [1, len]; no density test
LooseArray(T) ==
    \A j \in 1..Len(T.ent) :
        /\ lua_type(T.ent[j][1]) = "number"
        /\ lua_tointeger(T.ent[j][1]) >= 1
        /\ lua_tointeger(T.ent[j][1]) <= lua_objlen(T)

\* a non-empty table whose keys are exactly 1..N, holding strings
IsStringSequence(T) ==
    /\ Len(T.ent) > 0
    /\ T.border = Len(T.ent)
    /\ \A j \in 1..Len(T.ent) : T.ent[j][1] = Num(j) /\ lua_type(T.ent[j][2]) = "string"

\* a mapping under string keys whose values are strings or such sequences, one
\* sequence at least
HoldsStringSequences(h, r) ==
    /\ \A j \in 1..Len(h[r].ent) :
          /\ lua_type(h[r].ent[j][1]) = "string"
          /\ \/ lua_type(h[r].ent[j][2]) = "string"
             \/ lua_type(h[r].ent[j][2]) = "table" /\ IsStringSequence(h[h[r].ent[j][2][2]])
    /\ \E j \in 1..Len(h[r].ent) : lua_type(h[r].ent[j][2]) = "table"

TomlArrayOf(T) == <<"tarr", [i \in 1..Len(T.ent) |-> <<"tstr", T.ent[i][2][2]>>]>>

\* C14 (as claimed): toml.serialize classifies a nested table by the looser rule,
\* so a non-empty table with the keys 1..N held under a string key is an array
\* and is written as the TOML array of its N elements in index order.
C14_TomlLooseArray ==
    (pc = "serialized" /\ fmt = "toml" /\ HoldsStringSequences(heap, root)) =>
        /\ \A t \in Children(heap, root) : toml_is_array(heap[t]) = LooseArray(heap[t])
        /\ out[1] = "ok"
        /\ \A j \in 1..Len(heap[root].ent) :
              lua_type(heap[root].ent[j][2]) = "table" =>
                  out[2][2][heap[root].ent[j][1][2]] = TomlArrayOf(heap[heap[root].ent[j][2][2]])

(* -------------------------------- C13 ---------------------------------- *)

\* one more value completed in the innermost open container
Counted(fr) ==
    IF fr = <<>> \/ ~fr[Len(fr)].isArray THEN fr
    ELSE [fr EXCEPT ![Len(fr)].index = @ + 1]

\* the containers open after the first n events, outermost first, each array
\* with the number of values completed in it so far (a nested container counts
\* as one value, when it closes)
RECURSIVE OpenFrames(_, _)
OpenFrames(evs, n) ==
    IF n = 0 THEN <<>>
    ELSE CASE evs[n][1] = "start_array" ->
                 Append(OpenFrames(evs, n - 1), [isArray |-> TRUE, index |-> 0])
           [] evs[n][1] = "start_object" ->
                 Append(OpenFrames(evs, n - 1), [isArray |-> FALSE, index |-> 0])
           [] evs[n][1] = "key" -> OpenFrames(evs, n - 1)
           [] evs[n][1] \in {"end_array", "end_object"} ->
                 Counted(SubSeq(OpenFrames(evs, n - 1), 1, Len(OpenFrames(evs, n - 1)) - 1))
           [] OTHER -> Counted(OpenFrames(evs, n - 1))

\* the value a document stands for: element i of an array is its i-th value, an
\* object holds each value under its key, null is nil (no entry)
RECURSIVE DocValue(_)
DocValue(d) ==
    CASE d[1] = "jnull" -> Nil
      [] d[1] = "jbool" -> Bool(d[2])
      [] d[1] = "jnum" -> <<"number", d[2], d[3]>>
      [] d[1] = "jstr" -> Str(d[2])
      [] d[1] = "jarr" ->
            <<"tree", SelectSeq([i \in 1..Len(d[2]) |-> <<Num(i), DocValue(d[2][i])>>],
                                LAMBDA e : e[2] # Nil)>>
      [] d[1] = "jobj" ->
            <<"tree", SelectSeq([i \in 1..Len(SetToSeq(DOMAIN d[2])) |->
                                    <<Str(SetToSeq(DOMAIN d[2])[i]),
                                      DocValue(d[2][SetToSeq(DOMAIN d[2])[i]])>>],
                                LAMBDA e : e[2] # Nil)>>

\* json.deserialize has read a document
JsonRead == pc = "deserialized" /\ fmt = "json" /\ inp.len > 0 /\ inp.tree # <<"malformed">>

\* C13: while json.deserialize reads a document, after every event the frame
\* stack is the open containers (each array frame counting the values completed
\* in it); at the end the frame stack is empty, one value is left, and it is the
\* document's value: every value sits in the container that was innermost when
\* it was completed, as element i of an array or under the last key of an object.
C13_SaxContainerStack ==
    JsonRead =>
        /\ \A n \in 0..Len(SaxEvents(inp.tree)) :
              sax_parse(SaxInit, SubSeq(SaxEvents(inp.tree), 1, n)).stack =
                  OpenFrames(SaxEvents(inp.tree), n)
        /\ sax_parse(SaxInit, SaxEvents(inp.tree)).stack = <<>>
        /\ Len(sax_parse(SaxInit, SaxEvents(inp.tree)).L) = 1
        /\ val[1] = "ok"
        /\ ValueEqual(val[2], DocValue(inp.tree))

\* an array whose second value is a container, and an object holding a container,
\* have been read
C13_Witness ==
    /\ JsonRead
    /\ val[1] = "ok"
    /\ inp.tree[1] = "jarr"
    /\ Len(inp.tree[2]) >= 2
    /\ inp.tree[2][1][1] = "jstr"
    /\ inp.tree[2][2][1] = "jobj"
    /\ DOMAIN inp.tree[2][2][2] # {}
    /\ Len(val[2][2]) = 2


(* ------------------- C12: the guard does not outlive a call ------------ *)

\* what serialize gives for table t of heap h when its identity set starts empty,
\* as the caller sees it
Alone(f, h, t) ==
    CASE f = "json" -> json_encode_value(h, Ref(t), {})
      [] f = "yaml" -> yaml_encode_lua_value(h, Ref(t), {})
      [] f = "toml" -> toml_encode_lua_table(h, t, {})
      [] f = "xml" -> emit_element(h, t, {}, <<>>, 0)

AsCallerSees(r) == IF r[1] = "err" THEN Err(r[2]) ELSE r

\* the call before the latest one raised while identities were recorded
EarlierCallLeftIdentities == found # {}

\* C12: in any sequence of serialize calls, of any formats and with any mix of
\* results and raises, each call gives what its own argument gives from an empty
\* identity set, whatever identities an earlier call had recorded when it raised;
\* in particular an encodable table is encoded after a call that met it failed
\* mid-traversal.
C12_GuardIsPerCall ==
    pc = "serialized" => out = AsCallerSees(Alone(fmt, heap, root))

\* a call succeeds on a table whose identity the call before it left recorded
\* when it raised
C12_Witness ==
    /\ pc = "serialized"
    /\ EarlierCallLeftIdentities
    /\ root \in found
    /\ out[1] = "ok"
    /\ guard = {}

====
